---- MODULE Spec2Model ----
(***************************************************************************)
(* A model of Chronyk 0.9.1 (src/chronyk/chronyk.py): the Chronyk instant, *)
(* the ChronykDelta duration, the string parsers and the renderers.        *)
(*                                                                         *)
(* Conventions of the model                                                *)
(*  - Times are whole seconds (Python floats restricted to integers).  A   *)
(*    quotient num / den of them is the pair of its terms: the double the  *)
(*    code computes decides differently from the exact quotient only where *)
(*    the fraction is exactly 0.8, and Round decides that case as the      *)
(*    doubles do.                                                          *)
(*  - Python str values are TLA+ strings; the character at position i of   *)
(*    s is SubSeq(s, i, i).  A text a caller passes is one line.           *)
(*  - The host is a record [timezone, altzone, dst, tzname]: time.timezone, *)
(*    time.altzone, whether daylight saving time is in effect, and         *)
(*    time.tzname in lower case.  All the wall-clock times of one          *)
(*    behaviour lie in the same DST period.                                *)
(*  - The interpreter is one the package declares (src/setup.py:128-130,   *)
(*    Python 3.2 to 3.4): there, deleting the current key while iterating  *)
(*    an OrderedDict lets the iteration go on with the next key.           *)
(*  - A call returns a record [exc, none, val]: exc is "" for a normal     *)
(*    return and the exception's name otherwise; none tells a return of    *)
(*    None from a return of val.                                           *)
(***************************************************************************)
EXTENDS Integers, Sequences, FiniteSets, TLC

VARIABLES
    host,    \* the host's time zone settings
    loaded,  \* time.time() when the module was imported
    clock,   \* time.time()
    ca, cb,  \* the caller's Chronyk objects a and b, or None
    cd,      \* the caller's ChronykDelta object d, or None
    made,    \* history: the calls that made a, b and d
    last     \* history: the last call, its arguments and what it returned

vars == <<host, loaded, clock, ca, cb, cd, made, last>>

-----------------------------------------------------------------------------
(* Bounds of the model *)

\* how many times the clock is advanced in one behaviour
MaxTicks == 1

\* the largest maxunits argument tried; the smallest is 2 - MaxUnitsTried
MaxUnitsTried == 3

-----------------------------------------------------------------------------
(* Python values *)

Ok(x) == [exc |-> "", none |-> FALSE, val |-> x]

\* a return of None
RetNone == [exc |-> "", none |-> TRUE, val |-> 0]

Raise(e) == [exc |-> e, none |-> TRUE, val |-> 0]

None == [type |-> "NoneType"]

Int_(n) == [type |-> "int", v |-> n]

Str_(s) == [type |-> "str", v |-> s]

List_ == [type |-> "list"]

-----------------------------------------------------------------------------
(* The calendar: datetime, time.gmtime and calendar.monthrange *)

IsLeap(year) == (year % 4 = 0 /\ year % 100 # 0) \/ year % 400 = 0

MonthRange(year, month) ==
    IF month = 2 THEN (IF IsLeap(year) THEN 29 ELSE 28)
    ELSE IF month \in {4, 6, 9, 11} THEN 30 ELSE 31

\* days from 1970-01-01 to the civil date year-month-day (proleptic
\* Gregorian)
DaysFromCivil(year, month, day) ==
    LET yy  == IF month <= 2 THEN year - 1 ELSE year
        era == yy \div 400
        yoe == yy - era * 400
        mp  == IF month > 2 THEN month - 3 ELSE month + 9
        doy == (153 * mp + 2) \div 5 + day - 1
        doe == yoe * 365 + yoe \div 4 - yoe \div 100 + doy
    IN  era * 146097 + doe - 719468

CivilFromDays(days) ==
    LET shifted == days + 719468
        era == shifted \div 146097
        doe == shifted - era * 146097
        yoe == (doe - doe \div 1460 + doe \div 36524 - doe \div 146096) \div 365
        doy == doe - (365 * yoe + yoe \div 4 - yoe \div 100)
        mp  == (5 * doy + 2) \div 153
        day == doy - (153 * mp + 2) \div 5 + 1
        month == IF mp < 10 THEN mp + 3 ELSE mp - 9
        year  == yoe + era * 400 + (IF month <= 2 THEN 1 ELSE 0)
    IN  [Y |-> year, m |-> month, d |-> day]

\* seconds from the epoch of the calendar fields read as UTC
TimeGm(t) ==
    DaysFromCivil(t.Y, t.m, t.d) * 86400 + t.H * 3600 + t.M * 60 + t.S

\* the calendar fields of a timestamp, read as UTC; wday: Monday is 0
GmTime(ts) ==
    LET days == ts \div 86400
        rem  == ts % 86400
        c    == CivilFromDays(days)
    IN  [Y |-> c.Y, m |-> c.m, d |-> c.d,
         H |-> rem \div 3600, M |-> (rem % 3600) \div 60, S |-> rem % 60,
         wday |-> (days + 3) % 7, isdst |-> 0]

\* the offset (seconds west of UTC) the host applies to local times
HostOffset(h) == IF h.dst THEN h.altzone ELSE h.timezone

\* time.localtime
LocalTime(h, ts) ==
    [GmTime(ts - HostOffset(h)) EXCEPT !.isdst = IF h.dst THEN 1 ELSE 0]

\* time.mktime of a struct whose tm_isdst is -1 (the host decides), 0 or 1
TimeMktime(h, t) ==
    TimeGm(t) + (IF t.isdst = 1 THEN h.altzone
                 ELSE IF t.isdst = 0 THEN h.timezone
                 ELSE HostOffset(h))

\* _mktime: time.mktime; the OverflowError branch computes the same value
\* for tm_isdst of 0 and 1 and guesses DST from the host for -1
Mktime(h, t) == TimeMktime(h, t)

\* LOCALTZ = time.altzone, read once when the module is loaded
LOCALTZ(h) == h.altzone

\* currentutc(): time.time() + LOCALTZ
currentutc(h, now) == now + LOCALTZ(h)

\* datetime.datetime.utcnow() as calendar fields; timetuple() has isdst -1
UtcNow(now) == [GmTime(now) EXCEPT !.isdst = -1]

-----------------------------------------------------------------------------
(* Python str operations *)

Char(s, i) == SubSeq(s, i, i)

IsDigit(c) == c \in {"0", "1", "2", "3", "4", "5", "6", "7", "8", "9"}

DigitVal(c) == CHOOSE n \in 0..9 : Char("0123456789", n + 1) = c

AllDigits(s) == \A i \in 1..Len(s) : IsDigit(Char(s, i))

\* int(s) of a string of digits
RECURSIVE ParseInt(_)
ParseInt(s) ==
    IF Len(s) = 0 THEN 0
    ELSE ParseInt(SubSeq(s, 1, Len(s) - 1)) * 10 + DigitVal(Char(s, Len(s)))

\* s[j:].startswith(p), j counted from 1
StartsWithAt(s, j, p) ==
    j + Len(p) - 1 <= Len(s) /\ SubSeq(s, j, j + Len(p) - 1) = p

\* s.find(p) != -1
Contains(s, p) == \E j \in 1..Len(s) : StartsWithAt(s, j, p)

IsSpace(c) == c \in {" ", "\t", "\n"}

LowerChar(c) ==
    LET up == "ABCDEFGHIJKLMNOPQRSTUVWXYZ"
        lo == "abcdefghijklmnopqrstuvwxyz"
    IN  IF \E i \in 1..26 : Char(up, i) = c
        THEN Char(lo, CHOOSE i \in 1..26 : Char(up, i) = c)
        ELSE c

\* str.lower
RECURSIVE Lower(_)
Lower(s) ==
    IF Len(s) = 0 THEN s
    ELSE LowerChar(Char(s, 1)) \o Lower(SubSeq(s, 2, Len(s)))

\* str.strip
Strip(s) ==
    LET keep == {i \in 1..Len(s) : ~IsSpace(Char(s, i))}
    IN  IF keep = {} THEN ""
        ELSE SubSeq(s, CHOOSE i \in keep : \A j \in keep : i <= j,
                       CHOOSE i \in keep : \A j \in keep : i >= j)

\* str.replace: the occurrences of old, from the left, not overlapping
RECURSIVE Replace(_, _, _)
Replace(s, old, new) ==
    IF Len(s) < Len(old) THEN s
    ELSE IF SubSeq(s, 1, Len(old)) = old
         THEN new \o Replace(SubSeq(s, Len(old) + 1, Len(s)), old, new)
         ELSE Char(s, 1) \o Replace(SubSeq(s, 2, Len(s)), old, new)

\* the ends q of the digits that run from position p of s up to " " + k
UnitEnds(k, s, p) ==
    {q \in (p + 1)..Len(s) :
        /\ AllDigits(SubSeq(s, p, q - 1))
        /\ StartsWithAt(s, q, " " \o k)}

\* group(1) where the digits start at position p
UnitGroupAt(k, s, p) ==
    [matched |-> TRUE,
     group |-> SubSeq(s, p, (CHOOSE q \in UnitEnds(k, s, p) : TRUE) - 1)]

\* the match for the starts ps of digits that run up to " " + k
UnitGroup(k, s, ps) ==
    IF ps = {} THEN [matched |-> FALSE, group |-> ""]
    ELSE UnitGroupAt(k, s, CHOOSE p1 \in ps : \A p2 \in ps : p1 <= p2)

\* re.match(".*?([0-9]+?) " + k, s): the lazy prefix stops at the first
\* position from which digits run up to " " + k; group is group(1)
ReUnit(k, s) == UnitGroup(k, s, {p \in 1..Len(s) : UnitEnds(k, s, p) # {}})

-----------------------------------------------------------------------------
(* time.strptime: the format becomes a regular expression that is matched  *)
(* at the start of the text, ignoring case; the whole text must be used up *)

MonthNames ==
    <<"january", "february", "march", "april", "may", "june", "july",
      "august", "september", "october", "november", "december">>

MonthAbbrs ==
    <<"jan", "feb", "mar", "apr", "may", "jun", "jul", "aug", "sep", "oct",
      "nov", "dec">>

DayNames ==
    <<"monday", "tuesday", "wednesday", "thursday", "friday", "saturday",
      "sunday">>

DayAbbrs == <<"mon", "tue", "wed", "thu", "fri", "sat", "sun">>

\* the alternatives of a numeric directive, in the order the expression
\* tries them: n digits whose value lies in lo..hi
NumAlts(dir) ==
    CASE dir = "d" -> <<[n |-> 2, lo |-> 30, hi |-> 31],
                        [n |-> 2, lo |-> 10, hi |-> 29],
                        [n |-> 2, lo |-> 1, hi |-> 9],
                        [n |-> 1, lo |-> 1, hi |-> 9]>>
      [] dir = "H" -> <<[n |-> 2, lo |-> 20, hi |-> 23],
                        [n |-> 2, lo |-> 0, hi |-> 19],
                        [n |-> 1, lo |-> 0, hi |-> 9]>>
      [] dir \in {"I", "m"} -> <<[n |-> 2, lo |-> 10, hi |-> 12],
                                 [n |-> 2, lo |-> 1, hi |-> 9],
                                 [n |-> 1, lo |-> 1, hi |-> 9]>>
      [] dir = "M" -> <<[n |-> 2, lo |-> 0, hi |-> 59],
                        [n |-> 1, lo |-> 0, hi |-> 9]>>
      [] dir = "S" -> <<[n |-> 2, lo |-> 60, hi |-> 61],
                        [n |-> 2, lo |-> 0, hi |-> 59],
                        [n |-> 1, lo |-> 0, hi |-> 9]>>
      [] dir = "y" -> <<[n |-> 2, lo |-> 0, hi |-> 99]>>
      [] dir = "Y" -> <<[n |-> 4, lo |-> 0, hi |-> 9999]>>
      [] OTHER -> <<>>

NumAltAt(alt, s, j) ==
    /\ j + alt.n - 1 <= Len(s)
    /\ AllDigits(SubSeq(s, j, j + alt.n - 1))
    /\ ParseInt(SubSeq(s, j, j + alt.n - 1)) \in alt.lo..alt.hi

\* the names a word directive accepts (none is the start of another, so
\* their order does not matter), each with its value
WordAlts(tzname, dir) ==
    LET named(names) == [i \in 1..Len(names) |-> [v |-> i, w |-> names[i]]]
        zones == IF tzname[1] = tzname[2]
                 THEN <<[v |-> 0, w |-> "utc"], [v |-> 0, w |-> "gmt"],
                        [v |-> 0, w |-> tzname[1]]>>
                 ELSE <<[v |-> 0, w |-> "utc"], [v |-> 0, w |-> "gmt"],
                        [v |-> 0, w |-> tzname[1]], [v |-> 1, w |-> tzname[2]]>>
    IN  CASE dir = "B" -> named(MonthNames)
          [] dir = "b" -> named(MonthAbbrs)
          [] dir = "A" -> named(DayNames)
          [] dir = "a" -> named(DayAbbrs)
          [] dir = "p" -> <<[v |-> 0, w |-> "am"], [v |-> 1, w |-> "pm"]>>
          [] dir = "Z" -> zones
          [] OTHER -> <<>>

\* the matches of directive dir at position j of s (in lower case), in the
\* order tried: [n: characters used, v: the value read]
Candidates(tzname, dir, s, j) ==
    LET nums  == SelectSeq(NumAlts(dir), LAMBDA alt : NumAltAt(alt, s, j))
        padd  == IF /\ dir = "d"
                    /\ j + 1 <= Len(s)
                    /\ Char(s, j) = " "
                    /\ Char(s, j + 1) \in {"1", "2", "3", "4", "5", "6", "7", "8", "9"}
                 THEN <<[n |-> 2, v |-> DigitVal(Char(s, j + 1))]>>
                 ELSE <<>>
        words == SelectSeq(WordAlts(tzname, dir),
                           LAMBDA alt : StartsWithAt(s, j, alt.w))
        zoff  == IF /\ dir = "z"
                    /\ j + 4 <= Len(s)
                    /\ Char(s, j) \in {"+", "-"}
                    /\ AllDigits(SubSeq(s, j + 1, j + 4))
                    /\ DigitVal(Char(s, j + 3)) <= 5
                 THEN <<[n |-> 5,
                         v |-> (IF Char(s, j) = "-" THEN -1 ELSE 1)
                               * (ParseInt(SubSeq(s, j + 1, j + 2)) * 3600
                                  + ParseInt(SubSeq(s, j + 3, j + 4)) * 60)]>>
                 ELSE <<>>
    IN  [i \in 1..Len(nums) |->
            [n |-> nums[i].n, v |-> ParseInt(SubSeq(s, j, j + nums[i].n - 1))]]
        \o padd
        \o [i \in 1..Len(words) |-> [n |-> Len(words[i].w), v |-> words[i].v]]
        \o zoff

\* the directives strptime knows among those the format tables use ("%s"
\* is none: a format holding it is refused)
KnownDirectives ==
    {"d", "H", "I", "m", "M", "S", "y", "Y", "B", "b", "A", "a", "p", "Z", "z"}

\* "%c" stands for the locale's date and time representation (C locale)
RECURSIVE ExpandC(_)
ExpandC(fmt) ==
    IF Len(fmt) < 2 THEN fmt
    ELSE IF SubSeq(fmt, 1, 2) = "%c"
         THEN "%a %b %d %H:%M:%S %Y" \o ExpandC(SubSeq(fmt, 3, Len(fmt)))
         ELSE Char(fmt, 1) \o ExpandC(SubSeq(fmt, 2, Len(fmt)))

BadDirective(fmt) ==
    \E i \in 1..Len(fmt) :
        /\ Char(fmt, i) = "%"
        /\ (i = 1 \/ Char(fmt, i - 1) # "%")
        /\ Char(fmt, i + 1) \notin KnownDirectives

\* the groups read so far; -1 or "" stands for a group that is absent
NoGroups ==
    [Y |-> -1, m |-> -1, d |-> -1, H |-> -1, M |-> -1, S |-> -1, p |-> -1,
     y |-> -1, I |-> -1, Z |-> -1, z |-> 0, hasz |-> FALSE]

SetGroup(acc, dir, v) ==
    CASE dir = "Y" -> [acc EXCEPT !.Y = v]
      [] dir = "y" -> [acc EXCEPT !.y = v]
      [] dir \in {"m", "B", "b"} -> [acc EXCEPT !.m = v]
      [] dir = "d" -> [acc EXCEPT !.d = v]
      [] dir = "H" -> [acc EXCEPT !.H = v]
      [] dir = "I" -> [acc EXCEPT !.I = v]
      [] dir = "M" -> [acc EXCEPT !.M = v]
      [] dir = "S" -> [acc EXCEPT !.S = v]
      [] dir = "p" -> [acc EXCEPT !.p = v]
      [] dir = "Z" -> [acc EXCEPT !.Z = v]
      [] dir = "z" -> [acc EXCEPT !.z = v, !.hasz = TRUE]
      [] OTHER -> acc

\* the backtracking match of fmt from position i against s (in lower case)
\* from position j
RECURSIVE ReMatch(_, _, _, _, _, _), ReAlt(_, _, _, _, _, _, _, _, _)
ReMatch(tzname, fmt, i, s, j, acc) ==
    IF i > Len(fmt) THEN [ok |-> TRUE, end |-> j, g |-> acc]
    ELSE IF Char(fmt, i) = "%"
    THEN ReAlt(tzname, fmt, i + 2, s, j, acc, Char(fmt, i + 1),
               Candidates(tzname, Char(fmt, i + 1), s, j), 1)
    ELSE IF IsSpace(Char(fmt, i))
    THEN \* a run of white space in the format is \s+, greedy
         LET fend == CHOOSE e \in i..Len(fmt) :
                        /\ \A x \in i..e : IsSpace(Char(fmt, x))
                        /\ (e = Len(fmt) \/ ~IsSpace(Char(fmt, e + 1)))
             run  == {n \in 1..(Len(s) - j + 1) :
                         \A x \in j..(j + n - 1) : IsSpace(Char(s, x))}
             ns   == [x \in 1..Cardinality(run) |->
                         [n |-> Cardinality(run) + 1 - x, v |-> 0]]
         IN  ReAlt(tzname, fmt, fend + 1, s, j, acc, " ", ns, 1)
    ELSE IF j <= Len(s) /\ Char(s, j) = LowerChar(Char(fmt, i))
    THEN ReMatch(tzname, fmt, i + 1, s, j + 1, acc)
    ELSE [ok |-> FALSE, end |-> j, g |-> acc]

ReAlt(tzname, fmt, i, s, j, acc, dir, cands, k) ==
    IF k > Len(cands) THEN [ok |-> FALSE, end |-> j, g |-> acc]
    ELSE LET r == ReMatch(tzname, fmt, i, s, j + cands[k].n,
                          SetGroup(acc, dir, cands[k].v))
         IN  IF r.ok THEN r
             ELSE ReAlt(tzname, fmt, i, s, j, acc, dir, cands, k + 1)

NoStruct == [t |-> NoGroups, ok |-> FALSE]

\* the struct_time of the date and the time read: ValueError (ok is FALSE)
\* for a day the month does not have
StructOf(year, mon, day, hour, g) ==
    IF day > MonthRange(year, mon) THEN NoStruct
    ELSE [t |-> [Y |-> year, m |-> mon, d |-> day, H |-> hour,
                 M |-> IF g.M # -1 THEN g.M ELSE 0,
                 S |-> IF g.S # -1 THEN g.S ELSE 0,
                 wday |-> (DaysFromCivil(year, mon, day) + 3) % 7,
                 isdst |-> g.Z],
          ok |-> TRUE]

\* the values of the groups g, with the defaults of those that are absent
GroupsRead(g) ==
    StructOf(IF g.Y # -1 THEN g.Y
             ELSE IF g.y # -1
                  THEN (IF g.y <= 68 THEN 2000 + g.y ELSE 1900 + g.y)
                  ELSE 1900,
             IF g.m # -1 THEN g.m ELSE 1,
             IF g.d # -1 THEN g.d ELSE 1,
             IF g.H # -1 THEN g.H
             ELSE IF g.I = -1 THEN 0
             ELSE IF g.p = 1 THEN (IF g.I # 12 THEN g.I + 12 ELSE g.I)
             ELSE (IF g.I = 12 THEN 0 ELSE g.I),
             g)

\* what strptime makes of the match r of the format f with the text s
Matched(s, f, r) ==
    IF ~r.ok \/ r.end # Len(s) + 1 THEN NoStruct
    ELSE IF BadDirective(f) THEN NoStruct
    ELSE GroupsRead(r.g)

StrptimeFormat(tzname, s, f) == Matched(s, f, ReMatch(tzname, f, 1, s, 1, NoGroups))

\* time.strptime of a text in lower case: [ok, t]; ok is FALSE where it
\* raises ValueError
StrptimeLower(tzname, s, fmt) ==
    StrptimeFormat(tzname, s, IF fmt = "%c" THEN ExpandC(fmt) ELSE fmt)

\* time.strptime(s, fmt): the expression ignores case
Strptime(tzname, s, fmt) == StrptimeLower(tzname, Lower(s), fmt)

-----------------------------------------------------------------------------
(* The hosts and the texts of the model *)

Hosts ==
    {[dst |-> FALSE, altzone |-> 0, timezone |-> 0, tzname |-> <<"utc", "utc">>],
     [dst |-> TRUE, altzone |-> -7200, timezone |-> -3600,
      tzname |-> <<"cet", "cest">>],
     [dst |-> FALSE, altzone |-> -7200, timezone |-> -3600,
      tzname |-> <<"cet", "cest">>]}

\* the strings of the nine common phrases
CommonTexts ==
    {"now", "Today", "this week", "this month", " This day ", "yesterday",
     "Yester day", "yesteryear", "yester year"}

RelativeTexts ==
    {"2 hours ago", "in 2 hours", "In 30 minutes", "10 seconds ago",
     "1 year ago", "in 1 year", "in 4 months", "1 month ago",
     "in blurgh weeks and 2 days", "made in china", "in 1 week and 1 day ago"}

\* the texts of a date or a date and a time without a zone, each with the
\* calendar date and the wall-clock time written in it
ZoneLessTexts ==
    {[text |-> "2014-09-18 11:24:47",
      written |-> [Y |-> 2014, m |-> 9, d |-> 18, H |-> 11, M |-> 24, S |-> 47]],
     [text |-> "2014-09-18",
      written |-> [Y |-> 2014, m |-> 9, d |-> 18, H |-> 0, M |-> 0, S |-> 0]],
     [text |-> "May 2nd, 2015",
      written |-> [Y |-> 2015, m |-> 5, d |-> 2, H |-> 0, M |-> 0, S |-> 0]],
     [text |-> "2. August 2010",
      written |-> [Y |-> 2010, m |-> 8, d |-> 2, H |-> 0, M |-> 0, S |-> 0]],
     [text |-> "21. 8. 1976 23:18",
      written |-> [Y |-> 1976, m |-> 8, d |-> 21, H |-> 23, M |-> 18, S |-> 0]],
     [text |-> "May 2nd, 2016 12:51 am",
      written |-> [Y |-> 2016, m |-> 5, d |-> 2, H |-> 0, M |-> 51, S |-> 0]],
     [text |-> "02/29/2016 11:14:32 PM",
      written |-> [Y |-> 2016, m |-> 2, d |-> 29, H |-> 23, M |-> 14, S |-> 32]],
     [text |-> "Thu Sep 18 11:24:47 2014",
      written |-> [Y |-> 2014, m |-> 9, d |-> 18, H |-> 11, M |-> 24, S |-> 47]],
     [text |-> "1950.01.01",
      written |-> [Y |-> 1950, m |-> 1, d |-> 1, H |-> 0, M |-> 0, S |-> 0]]}

ZonedTexts ==
    {"2014-09-18T11:24:47Z", "2014-09-18 11:24 +0200", "2014-09-18 11:24 UTC",
     "2014-09-18 11:24 +0000"}

TimeOnlyTexts == {"17:14", "11:14 am", "17:14:32"}

UnparsedTexts == {"warglblargl", "", "2014-02-30", "this  week", "tomorrow"}

Texts ==
    CommonTexts \cup RelativeTexts \cup {z.text : z \in ZoneLessTexts}
    \cup ZonedTexts \cup TimeOnlyTexts \cup UnparsedTexts

\* timestr.lower().strip().replace(". ", " ")
Normalize(timestr) == Replace(Strip(Lower(timestr)), ". ", " ")

\* the clock readings of the model: a day of September and the last hour of
\* a February 29, each up to MaxTicks ticks later
Clocks ==
    {TimeGm([Y |-> 2014, m |-> 9, d |-> 18, H |-> 12, M |-> 0, S |-> 0]),
     TimeGm([Y |-> 2016, m |-> 2, d |-> 29, H |-> 23, M |-> 30, S |-> 0])}

TickSeconds == 60 * 60

-----------------------------------------------------------------------------
(* Chronyk.__fromabsolute__ *)

datetimeformats0 ==
    <<"%Y-%m-%dT%H:%M:%SZ", "%Y-%m-%dT%H:%M:%S%z", "%Y-%m-%dT%H:%M:%S%Z",
      "%c", "%s">>

dateformats ==
    <<"%Y-%m-%d", "%Y%m%d", "%Y.%m.%d", "%m/%d/%Y", "%m/%d/%y", "%d %m %Y",
      "%d-%m-%Y", "%d/%m/%Y", "%d/%m %Y", "%d.%m.%Y", "%d. %m. %Y",
      "%d %b %Y", "%d %B %Y", "%d. %b %Y", "%d. %B %Y", "%b %d %Y",
      "%b %dst %Y", "%b %dnd %Y", "%b %drd %Y", "%b %dth %Y", "%b %d, %Y",
      "%b %dst, %Y", "%b %dnd, %Y", "%b %drd, %Y", "%b %dth, %Y",
      "%B %d %Y", "%B %dst %Y", "%B %dnd %Y", "%B %drd %Y", "%B %dth %Y",
      "%B %d, %Y", "%B %dst, %Y", "%B %dnd, %Y", "%B %drd, %Y",
      "%B %dth, %Y", "%d %m %y", "%d-%m-%y", "%d/%m/%y", "%d/%m-%y",
      "%d.%m.%y", "%d. %m. %y", "%d %b %y", "%d %B %y", "%d. %b %y",
      "%d. %B %y", "%b %dst %y", "%b %dnd %y", "%b %drd %y", "%b %dth %y",
      "%B %dst %y", "%B %dnd %y", "%B %drd %y", "%B %dth %y">>

timeformats ==
    <<"%H:%M:%S %z", "%H:%M:%S %z", "%H:%M:%S", "%H:%M %z", "%H:%M %Z",
      "%H:%M", "%I:%M:%S %p %z", "%I:%M:%S %p %Z", "%I:%M:%S %p",
      "%I:%M %p %z", "%I:%M %p %Z", "%I:%M %p">>

\* the list after "Prepare combinations": for each date format, the date
\* format followed by each time format, then the date format alone
datetimeformats ==
    datetimeformats0
    \o [k \in 1..(Len(dateformats) * (Len(timeformats) + 1)) |->
          LET df == dateformats[(k - 1) \div (Len(timeformats) + 1) + 1]
              ti == ((k - 1) % (Len(timeformats) + 1)) + 1
          IN  IF ti <= Len(timeformats) THEN df \o " " \o timeformats[ti]
              ELSE df]

\* the first format of fmts, by position, among those numbered in try,
\* that time.strptime accepts for s
NotFound == [t |-> NoGroups, fmt |-> "", found |-> FALSE]

\* the format at position i of fmts, which accepts ls, and the struct_time
FoundAt(tzname, ls, fmts, i) ==
    [t |-> StrptimeLower(tzname, ls, fmts[i]).t, fmt |-> fmts[i],
     found |-> TRUE]

\* the first of the positions hits
FirstHit(tzname, ls, fmts, hits) ==
    IF hits = {} THEN NotFound
    ELSE FoundAt(tzname, ls, fmts, CHOOSE i1 \in hits : \A i2 \in hits : i1 <= i2)

\* the first format, among those at the positions try of fmts, that
\* time.strptime accepts for the text ls in lower case
FirstAmongLower(tzname, ls, fmts, try) ==
    FirstHit(tzname, ls, fmts,
             {i \in try : StrptimeLower(tzname, ls, fmts[i]).ok})

FirstAmong(tzname, s, fmts, try) == FirstAmongLower(tzname, Lower(s), fmts, try)

\* the first format of fmts, by position, that time.strptime accepts for s
FirstStrptime(tzname, s, fmts) == FirstAmong(tzname, s, fmts, 1..Len(fmts))

\* the date formats whose expression matches a start of s: the expression
\* of "<date format> <time format>" starts with that of the date format,
\* so strptime refuses every combination of a date format that is not here
DateStartsLower(tzname, ls) ==
    {k \in 1..Len(dateformats) :
        ReMatch(tzname, dateformats[k], 1, ls, 1, NoGroups).ok}

DateStarts(tzname, s) == DateStartsLower(tzname, Lower(s))

\* the positions in datetimeformats of the combinations of the date formats
\* at the positions starts of dateformats
Combinations(starts, n0, per) ==
    (1..n0) \cup {i \in (n0 + 1)..Len(datetimeformats) :
                     ((i - n0 - 1) \div per) + 1 \in starts}

\* the loop over datetimeformats: the first format, by position, that
\* time.strptime accepts for s
DateTimeLoop(tzname, s) ==
    FirstAmong(tzname, s, datetimeformats,
               Combinations(DateStarts(tzname, s), Len(datetimeformats0),
                            Len(timeformats) + 1))

\* "{:0w}".format(n), n >= 0
RECURSIVE ZeroPad(_, _)
ZeroPad(n, w) ==
    IF w <= 1 /\ n < 10 THEN Char("0123456789", n + 1)
    ELSE ZeroPad(n \div 10, w - 1) \o Char("0123456789", (n % 10) + 1)

\* _strftime("%Y-%m-%d"): the default time_struct is time.localtime() as it
\* was when the module was loaded
StrftimeDate(h, ld) ==
    LET t == LocalTime(h, ld)
    IN  ZeroPad(t.Y, 4) \o "-" \o ZeroPad(t.m, 2) \o "-" \o ZeroPad(t.d, 2)

\* the loop over timeformats for the text s on the day written as date
TimeLoop(tzname, date, s) ==
    FirstStrptime(tzname, date \o " " \o s,
                  [i \in 1..Len(timeformats) |-> "%Y-%m-%d " \o timeformats[i]])

\* timestamp = _mktime(struct) with self.timezone left out
StampOfNoOffset(h, timezone, fmt, t) == Mktime(h, t)

\* timestamp = _mktime(struct), plus self.timezone where the format that
\* matched holds no "z"
StampOf(h, timezone, fmt, t) ==
    IF ~Contains(Lower(fmt), "z") THEN Mktime(h, t) + timezone
    ELSE Mktime(h, t)

\* the value of the first loop that finds a format, or None
AbsoluteOf(h, timezone, dt, tm) ==
    IF dt.found THEN Ok(StampOf(h, timezone, dt.fmt, dt.t))
    ELSE IF tm.found THEN Ok(StampOf(h, timezone, tm.fmt, tm.t))
    ELSE RetNone

fromabsolute(h, ld, timezone, timestr) ==
    AbsoluteOf(h, timezone, DateTimeLoop(h.tzname, timestr),
               TimeLoop(h.tzname, StrftimeDate(h, ld), timestr))

-----------------------------------------------------------------------------
(* Chronyk.__fromrelative__ and Chronyk.__fromstring__ *)

TruncDiv(x, n) == IF x >= 0 THEN x \div n ELSE -((-x) \div n)

\* whether datetime.replace(year=y, month=m, day=dd) is a date (it raises
\* ValueError where it is not)
ReplaceOk(y, m, dd) == y \in 1..9999 /\ dd \in 1..MonthRange(y, m)

\* newday left as it is
ClampDayNot(newday, monthlen) == newday

\* while newday > calendar.monthrange(newyear, newmonth)[1]: newday -= 1
RECURSIVE ClampDay(_, _)
ClampDay(newday, monthlen) ==
    IF newday > monthlen THEN ClampDay(newday - 1, monthlen) ELSE newday

\* a unit that is mentioned without a number read as one of it
UnitReadOne(mentioned, match) ==
    IF mentioned
    THEN [n |-> IF match.matched THEN ParseInt(match.group) ELSE 1,
          has |-> TRUE]
    ELSE [n |-> 0, has |-> FALSE]

\* int(match.group(1)) for the unit k, where the text mentions " " + k and
\* the expression matches; has is FALSE where the unit is passed over
UnitRead(mentioned, match) ==
    IF mentioned /\ match.matched
    THEN [n |-> ParseInt(match.group), has |-> TRUE]
    ELSE [n |-> 0, has |-> FALSE]

UnitCount(k, timestr) ==
    UnitRead(Contains(timestr, " " \o k), ReUnit(k, timestr))

\* dati + datetime.timedelta(**delta), then _mktime(dati.timetuple())
RelativeDelta(h, dati, timestr, coef) ==
    Ok(Mktime(h, [GmTime(TimeGm(dati)
                         + coef * (UnitCount("week", timestr).n * 604800
                                   + UnitCount("day", timestr).n * 86400
                                   + UnitCount("hour", timestr).n * 3600
                                   + UnitCount("minute", timestr).n * 60
                                   + UnitCount("second", timestr).n))
                  EXCEPT !.isdst = -1]))

\* dati.replace(year=newyear, month=newmonth, day=newday)
MonthReplace(h, dati, timestr, coef, newyear, newmonth, newday) ==
    IF ~ReplaceOk(newyear, newmonth, newday) THEN Raise("ValueError")
    ELSE RelativeDelta(h, [dati EXCEPT !.Y = newyear, !.m = newmonth,
                                       !.d = newday],
                       timestr, coef)

\* newday, from dati.day down to the length of the new month
MonthClamp(h, dati, timestr, coef, newyear, newmonth) ==
    MonthReplace(h, dati, timestr, coef, newyear, newmonth,
                 ClampDay(dati.d, MonthRange(newyear, newmonth)))

\* newyear and newmonth of (dati.month - 1) + months * coef
MonthShift(h, dati, timestr, coef, shifted) ==
    MonthClamp(h, dati, timestr, coef, dati.Y + TruncDiv(shifted, 12),
               (shifted % 12) + 1)

\* the months, then the rest
RelativeMonths(h, dati, timestr, coef, months) ==
    IF ~months.has THEN RelativeDelta(h, dati, timestr, coef)
    ELSE MonthShift(h, dati, timestr, coef, (dati.m - 1) + months.n * coef)

\* the years, dati.replace(year=dati.year + years * coef), then the rest
RelativeYears(h, dati, timestr, coef, years) ==
    IF ~years.has
    THEN RelativeMonths(h, dati, timestr, coef, UnitCount("month", timestr))
    ELSE IF ~ReplaceOk(dati.Y + years.n * coef, dati.m, dati.d)
    THEN Raise("ValueError")
    ELSE RelativeMonths(h, [dati EXCEPT !.Y = dati.Y + years.n * coef],
                        timestr, coef, UnitCount("month", timestr))

\* __fromrelative__ taking the direction from " ago " first
RelativeFromAgoFirst(h, dati, timestr) ==
    IF ~Contains(timestr, " ago ") /\ ~Contains(timestr, " in ") THEN RetNone
    ELSE RelativeYears(h, dati, timestr,
                       IF Contains(timestr, " ago ") THEN -1 ELSE 1,
                       UnitCount("year", timestr))

\* __fromrelative__ of the text between spaces from dati, the UTC date and
\* time of the call
RelativeFrom(h, dati, timestr) ==
    IF ~Contains(timestr, " ago ") /\ ~Contains(timestr, " in ") THEN RetNone
    ELSE RelativeYears(h, dati, timestr,
                       IF Contains(timestr, " in ") THEN 1 ELSE -1,
                       UnitCount("year", timestr))

fromrelative(h, now, timestr0) ==
    RelativeFrom(h, UtcNow(now), " " \o timestr0 \o " ")

\* _mktime(dati.replace(year=dati.year - 1).timetuple())
Yesteryear(h, dati) ==
    IF ReplaceOk(dati.Y - 1, dati.m, dati.d)
    THEN Ok(Mktime(h, [dati EXCEPT !.Y = dati.Y - 1]))
    ELSE Raise("ValueError")

\* the common names for times of __fromstring__, for the normalized text
CommonPhrase(h, now, timestr) ==
    IF timestr \in {"today", "now", "this week", "this month", "this day"}
    THEN Ok(currentutc(h, now))
    ELSE IF timestr \in {"yesterday", "yester day"}
    THEN Ok(currentutc(h, now) - 24 * 3600)
    ELSE IF timestr \in {"yesteryear", "yester year"}
    THEN Yesteryear(h, UtcNow(now))
    ELSE RetNone

\* __fromstring__ with the relative parser passed over
FirstValueNoRelative(common, relative, absolute) ==
    IF common.exc # "" \/ ~common.none THEN common
    ELSE IF ~absolute.none THEN absolute
    ELSE Raise("ValueError")

\* the first of the three alternatives that returns a value or raises;
\* ValueError where none does
FirstValue(common, relative, absolute) ==
    IF common.exc # "" \/ ~common.none THEN common
    ELSE IF relative.exc # "" \/ ~relative.none THEN relative
    ELSE IF ~absolute.none THEN absolute
    ELSE Raise("ValueError")

\* __fromstring__ once the text is normalized
FromNormalized(h, ld, now, timezone, timestr) ==
    FirstValue(CommonPhrase(h, now, timestr), fromrelative(h, now, timestr),
               fromabsolute(h, ld, timezone, timestr))

fromstring(h, ld, now, timezone, timestr0) ==
    FromNormalized(h, ld, now, timezone, Normalize(timestr0))

-----------------------------------------------------------------------------
(* class Chronyk *)

Chronyk_(ts, timezone) ==
    [type |-> "Chronyk", ts |-> ts, timezone |-> timezone]

Struct_(t) == [type |-> "struct_time", v |-> t]

\* self.__timestamp__ for the input timestr
Stamp(h, ld, now, timestr, timezone) ==
    CASE timestr.type = "str" -> fromstring(h, ld, now, timezone, timestr.v)
      [] timestr.type = "int" -> Ok(timestr.v + timezone)
      [] timestr.type \in {"datetime", "struct_time"} ->
             Ok(Mktime(h, timestr.v) + timezone)
      [] OTHER -> Raise("TypeError")

\* the checks of allowpast and allowfuture against currentutc()
RangeCheck(current, timezone, allowpast, allowfuture, stamp) ==
    IF stamp.exc # "" THEN stamp
    ELSE IF ~allowpast /\ stamp.val < current THEN Raise("DateRangeError")
    ELSE IF ~allowfuture /\ stamp.val > current THEN Raise("DateRangeError")
    ELSE Ok(Chronyk_(stamp.val, timezone))

\* Chronyk.__init__: val is the new object
ChronykInit(h, ld, now, timestr0, timezone, allowpast, allowfuture) ==
    RangeCheck(currentutc(h, now), timezone, allowpast, allowfuture,
               Stamp(h, ld, now,
                     IF timestr0.type = "NoneType" THEN Int_(now) ELSE timestr0,
                     timezone))

\* the timezone argument of an accessor: None stands for self.timezone
TzArg(self, timezone) ==
    IF timezone.type = "NoneType" THEN self.timezone ELSE timezone.v

\* Chronyk.timestamp with the timezone argument passed over
timestampOwnOffset(self, timezone) == self.ts - self.timezone

\* Chronyk.timestamp
timestamp(self, timezone) == self.ts - TzArg(self, timezone)

\* Chronyk.__eq__ with a Chronyk or a number
ChronykEq(self, other) ==
    IF other.type = "Chronyk" THEN self.ts = timestamp(other, Int_(0))
    ELSE self.ts = other.v

\* Chronyk.__lt__ and Chronyk.__gt__ with a Chronyk
ChronykLt(self, other) == self.ts < timestamp(other, Int_(0))

ChronykGt(self, other) == self.ts > timestamp(other, Int_(0))

Delta_(seconds) == [type |-> "ChronykDelta", seconds |-> seconds]

\* the seconds of a ChronykDelta or the number itself
Amount(other) == IF other.type = "ChronykDelta" THEN other.seconds ELSE other.v

\* Chronyk.__add__ reading the stored timestamp where the code calls
\* self.timestamp()
ChronykAddStored(h, ld, now, self, other) ==
    IF other.type \in {"ChronykDelta", "int"}
    THEN ChronykInit(h, ld, now, Int_(self.ts + Amount(other)),
                     self.timezone, TRUE, TRUE)
    ELSE Raise("TypeError")

\* Chronyk.__add__: val is the new Chronyk
ChronykAdd(h, ld, now, self, other) ==
    IF other.type \in {"ChronykDelta", "int"}
    THEN ChronykInit(h, ld, now, Int_(timestamp(self, None) + Amount(other)),
                     self.timezone, TRUE, TRUE)
    ELSE Raise("TypeError")

\* Chronyk.__sub__ reading the other instant at its own offset where the
\* code calls other.timestamp(timezone=0)
ChronykSubOwnOffset(h, ld, now, self, other) ==
    IF other.type = "Chronyk"
    THEN Ok(Delta_(self.ts - timestamp(other, None)))
    ELSE IF other.type \in {"ChronykDelta", "int"}
    THEN ChronykInit(h, ld, now, Int_(timestamp(self, None) - Amount(other)),
                     self.timezone, TRUE, TRUE)
    ELSE Raise("TypeError")

\* Chronyk.__sub__: val is a ChronykDelta for a Chronyk, else a Chronyk
ChronykSub(h, ld, now, self, other) ==
    IF other.type = "Chronyk"
    THEN Ok(Delta_(self.ts - timestamp(other, Int_(0))))
    ELSE IF other.type \in {"ChronykDelta", "int"}
    THEN ChronykInit(h, ld, now, Int_(timestamp(self, None) - Amount(other)),
                     self.timezone, TRUE, TRUE)
    ELSE Raise("TypeError")

CtimeDays == <<"Mon", "Tue", "Wed", "Thu", "Fri", "Sat", "Sun">>

CtimeMonths ==
    <<"Jan", "Feb", "Mar", "Apr", "May", "Jun", "Jul", "Aug", "Sep", "Oct",
      "Nov", "Dec">>

\* the text of time.ctime for calendar fields: "Thu Sep 18 11:24:47 2014"
CtimeText(t) ==
    CtimeDays[t.wday + 1] \o " " \o CtimeMonths[t.m] \o " "
    \o (IF t.d < 10 THEN " " \o ZeroPad(t.d, 1) ELSE ZeroPad(t.d, 2)) \o " "
    \o ZeroPad(t.H, 2) \o ":" \o ZeroPad(t.M, 2) \o ":" \o ZeroPad(t.S, 2)
    \o " " \o ZeroPad(t.Y, 1)

\* Chronyk.ctime: time.ctime(self.__timestamp__ - timezone)
ctime(h, self, timezone) ==
    CtimeText(LocalTime(h, self.ts - TzArg(self, timezone)))

-----------------------------------------------------------------------------
(* class ChronykDelta *)

\* the comps of ChronykDelta.__fromstring__
DeltaComps ==
    <<[key |-> "second", value |-> 1], [key |-> "minute", value |-> 60],
      [key |-> "hour", value |-> 3600], [key |-> "day", value |-> 3600 * 24],
      [key |-> "week", value |-> 3600 * 24 * 7],
      [key |-> "month", value |-> 3600 * 24 * 30],
      [key |-> "year", value |-> 3600 * 24 * 365]>>

\* ChronykDelta.__fromstring__: the sum of the components from the i-th on
\* that match
RECURSIVE DeltaSum(_, _)
DeltaSum(timestr, i) ==
    IF i > Len(DeltaComps) THEN 0
    ELSE LET match == ReUnit(DeltaComps[i].key, timestr)
         IN  (IF match.matched THEN ParseInt(match.group) * DeltaComps[i].value
              ELSE 0)
             + DeltaSum(timestr, i + 1)

\* ChronykDelta.__init__ reading "ago" as a sign
DeltaInitSigned(timestr) ==
    IF timestr.type = "str"
    THEN Ok(Delta_((IF Contains(timestr.v, "ago") THEN -1 ELSE 1)
                   * DeltaSum(timestr.v, 1)))
    ELSE IF timestr.type = "int" THEN Ok(Delta_(timestr.v))
    ELSE Raise("TypeError")

\* ChronykDelta.__init__: val is the new object
DeltaInit(timestr) ==
    IF timestr.type = "str" THEN Ok(Delta_(DeltaSum(timestr.v, 1)))
    ELSE IF timestr.type = "int" THEN Ok(Delta_(timestr.v))
    ELSE Raise("TypeError")

\* the exponent of the double of magnitude a + 0.8 or a + 0.2, a >= 1: the
\* k with 2^k <= a < 2^(k+1)
RECURSIVE Exponent(_)
Exponent(a) == IF a < 2 THEN 0 ELSE 1 + Exponent(a \div 2)

\* deci > 0.8 in doubles, where the exact fraction of num / den is 0.8 and n
\* is its floor: the double nearest to the quotient keeps 52 - k bits of the
\* fraction, k its exponent, and the bits of 0.8 are 1100 repeated, so the
\* double lies above 0.8 where the first bit dropped is 1; the double
\* nearest to 0.8 itself keeps 53 bits and is what quotients below 2 leave
DeciAbove(n) ==
    LET a == IF n >= 0 THEN n ELSE -n - 1
    IN  a >= 2 /\ (53 - Exponent(a)) % 4 \in {1, 2}

\* _round(num / den) for den > 0: one more than the floor where deci > 0.8
Round(num, den) ==
    IF 5 * (num % den) > 4 * den THEN (num \div den) + 1
    ELSE IF 5 * (num % den) = 4 * den /\ DeciAbove(num \div den)
    THEN (num \div den) + 1
    ELSE num \div den

\* str(n)
IntStr(n) == IF n < 0 THEN "-" \o ZeroPad(-n, 1) ELSE ZeroPad(n, 1)

\* _pluralstr
pluralstr(string, value) ==
    IF value = 1 THEN "1 " \o string
    ELSE IntStr(value) \o " " \o string \o "s"

\* for k, v in values.items(): pop the entry if v == 0, else break
RECURSIVE PopLeadingZeros(_)
PopLeadingZeros(values) ==
    IF Len(values) = 0 THEN values
    ELSE IF values[1].value = 0 THEN PopLeadingZeros(Tail(values))
    ELSE values

\* ", ".join(segs)
RECURSIVE JoinComma(_)
JoinComma(segs) ==
    IF Len(segs) = 0 THEN ""
    ELSE IF Len(segs) = 1 THEN segs[1]
    ELSE segs[1] \o ", " \o JoinComma(Tail(segs))

\* values[x] = values[x] if values[x] > 0 else 0
Positive(v) == IF v > 0 THEN v ELSE 0

\* the levels of ChronykDelta.timestring and their seconds
Levels ==
    <<[key |-> "year", value |-> 3600 * 24 * 365],
      [key |-> "month", value |-> 3600 * 24 * 30],
      [key |-> "day", value |-> 3600 * 24], [key |-> "hour", value |-> 3600],
      [key |-> "minute", value |-> 60], [key |-> "second", value |-> 1]>>

\* the OrderedDict values from level i on: each of year to minute is
\* _round(seconds / unit) or 0 where that is negative, and is taken off
\* seconds; second is _round of what is left
RECURSIVE Breakdown(_, _), Level(_, _, _)
Breakdown(seconds, i) ==
    IF i = Len(Levels)
    THEN <<[key |-> Levels[i].key, value |-> Round(seconds, 1)]>>
    ELSE Level(seconds, i, Positive(Round(seconds, Levels[i].value)))

Level(seconds, i, value) ==
    <<[key |-> Levels[i].key, value |-> value]>>
    \o Breakdown(seconds - value * Levels[i].value, i + 1)

\* the OrderedDict values of ChronykDelta.timestring before the pops
DeltaValues(self) ==
    Breakdown(IF self.seconds < 0 THEN -self.seconds ELSE self.seconds, 1)

\* the segment of each entry shown
Segments(shown) ==
    [i \in 1..Len(shown) |-> pluralstr(shown[i].key, shown[i].value)]

\* the text of the segments
Joined(textsegs) ==
    IF Len(textsegs) = 0 THEN ""
    ELSE IF Len(textsegs) = 1 THEN textsegs[1]
    ELSE JoinComma(SubSeq(textsegs, 1, Len(textsegs) - 1))
         \o " and " \o textsegs[Len(textsegs)]

\* list(values.items())[:maxunits], for maxunits >= 1
FirstUnits(values, maxunits) ==
    SubSeq(values, 1, IF maxunits < Len(values) THEN maxunits ELSE Len(values))

\* ChronykDelta.timestring asserting maxunits >= 0
DeltaTimestringFromZero(self, maxunits) ==
    IF ~(maxunits >= 0) THEN Raise("ValueError")
    ELSE Ok(Joined(Segments(SelectSeq(
                FirstUnits(PopLeadingZeros(DeltaValues(self)), maxunits),
                LAMBDA e : e.value > 0))))

\* ChronykDelta.timestring
DeltaTimestring(self, maxunits) ==
    IF ~(maxunits >= 1) THEN Raise("ValueError")
    ELSE Ok(Joined(Segments(SelectSeq(
                FirstUnits(PopLeadingZeros(DeltaValues(self)), maxunits),
                LAMBDA e : e.value > 0))))

-----------------------------------------------------------------------------
(* Chronyk.timestring and Chronyk.relativestring *)

\* time.strftime(pattern, t) for the directives %Y %m %d %H %M %S
RECURSIVE Strftime(_, _)
Strftime(pattern, t) ==
    IF Len(pattern) = 0 THEN ""
    ELSE IF Char(pattern, 1) = "%" /\ Len(pattern) >= 2
    THEN (CASE Char(pattern, 2) = "Y" -> ZeroPad(t.Y, 4)
            [] Char(pattern, 2) = "m" -> ZeroPad(t.m, 2)
            [] Char(pattern, 2) = "d" -> ZeroPad(t.d, 2)
            [] Char(pattern, 2) = "H" -> ZeroPad(t.H, 2)
            [] Char(pattern, 2) = "M" -> ZeroPad(t.M, 2)
            [] Char(pattern, 2) = "S" -> ZeroPad(t.S, 2)
            [] OTHER -> SubSeq(pattern, 1, 2))
         \o Strftime(SubSeq(pattern, 3, Len(pattern)), t)
    ELSE Char(pattern, 1) \o Strftime(SubSeq(pattern, 2, Len(pattern)), t)

\* Chronyk.timestring: _strftime(pattern, _gmtime(timestamp))
ChronykTimestring(h, self, pattern, timezone) ==
    Strftime(pattern, GmTime(self.ts - TzArg(self, timezone) - LOCALTZ(h)))

\* Chronyk.relativestring with "1 day" wrapped like every other rendering
RelativeOfPlain(h, self, diff, minimum, maximum, pattern, maxunits) ==
    IF (IF diff < 0 THEN -diff ELSE diff) < minimum THEN Ok("just now")
    ELSE IF (IF diff < 0 THEN -diff ELSE diff) > maximum /\ maximum > 0
    THEN Ok(ChronykTimestring(h, self, pattern, None))
    ELSE LET timestring ==
                 DeltaTimestring(Delta_(IF diff < 0 THEN -diff ELSE diff),
                                 maxunits)
         IN  IF timestring.exc # "" THEN timestring
             ELSE IF diff < 0 THEN Ok("in " \o timestring.val)
             ELSE Ok(timestring.val \o " ago")

\* Chronyk.relativestring once now and timezone have their values: diff is
\* now - (self.__timestamp__ - timezone)
RelativeOf(h, self, diff, minimum, maximum, pattern, maxunits) ==
    IF (IF diff < 0 THEN -diff ELSE diff) < minimum THEN Ok("just now")
    ELSE IF (IF diff < 0 THEN -diff ELSE diff) > maximum /\ maximum > 0
    THEN Ok(ChronykTimestring(h, self, pattern, None))
    ELSE LET timestring ==
                 DeltaTimestring(Delta_(IF diff < 0 THEN -diff ELSE diff),
                                 maxunits)
         IN  IF timestring.exc # "" THEN timestring
             ELSE IF timestring.val = "1 day"
             THEN Ok(IF diff < 0 THEN "tomorrow" ELSE "yesterday")
             ELSE IF diff < 0 THEN Ok("in " \o timestring.val)
             ELSE Ok(timestring.val \o " ago")

\* Chronyk.relativestring; clk is time.time()
relativestring(h, clk, self, now, minimum, maximum, pattern, timezone, maxunits) ==
    RelativeOf(h, self,
               (IF now = None THEN clk ELSE now.v)
               - (self.ts - TzArg(self, timezone)),
               minimum, maximum, pattern, maxunits)

-----------------------------------------------------------------------------
(* guesstype *)

\* " {} ".format(timestr)
Padded(timestr) ==
    " " \o (IF timestr.type = "int" THEN IntStr(timestr.v) ELSE timestr.v) \o " "

\* guesstype looking for the names of the units first
guesstypeUnitsFirst(h, ld, now, timestr) ==
    IF \E comp \in {"second", "minute", "hour", "day", "week", "month", "year"} :
          Contains(Padded(timestr), comp)
    THEN DeltaInit(timestr)
    ELSE ChronykInit(h, ld, now, timestr, LOCALTZ(h), TRUE, TRUE)

\* guesstype: what the constructor it calls returns or raises
guesstype(h, ld, now, timestr) ==
    IF Contains(Padded(timestr), " in ") \/ Contains(Padded(timestr), " ago ")
    THEN ChronykInit(h, ld, now, timestr, LOCALTZ(h), TRUE, TRUE)
    ELSE IF \E comp \in {"second", "minute", "hour", "day", "week", "month",
                          "year"} : Contains(Padded(timestr), comp)
    THEN DeltaInit(timestr)
    ELSE ChronykInit(h, ld, now, timestr, LOCALTZ(h), TRUE, TRUE)

-----------------------------------------------------------------------------
(* The program: a host, its clock and the objects a caller holds *)

\* the offsets, epoch values and numbers of seconds the caller passes
Offsets == {0, -7200, 3600}

Epochs == {0, 1000000000}

Seconds == {-3600, 90, 86400}

\* the timezone arguments of the accessors
TzArgs == {None} \cup {Int_(z) : z \in Offsets}

NoCall ==
    [self |-> None, op |-> "", name |-> "", args |-> <<>>, at |-> 0,
     ret |-> RetNone]

\* how a name was bound: tried once its constructor has been called (the
\* caller calls it once for each name), with the input, the offset and the
\* clock reading of the call; sub for d = a - b
NotMade ==
    [timezone |-> 0, timestr |-> None, at |-> 0, tried |-> FALSE, sub |-> FALSE]

Init ==
    /\ host \in Hosts
    /\ clock \in Clocks
    /\ loaded = clock
    /\ ca = None
    /\ cb = None
    /\ cd = None
    /\ made = [d |-> NotMade, a |-> NotMade, b |-> NotMade]
    /\ last = NoCall

Held(slot) == IF slot = "a" THEN ca ELSE cb

\* time passes
Tick ==
    /\ clock < loaded + MaxTicks * TickSeconds
    /\ clock' = clock + TickSeconds
    /\ UNCHANGED <<host, loaded, ca, cb, cd, made, last>>

\* the call that was made, for the history
Call(op, name, self, args, ret) ==
    [self |-> self, op |-> op, name |-> name, args |-> args, at |-> clock,
     ret |-> ret]

\* the name a or b is bound to what the constructor returned, where it
\* returned
Bind(slot, args, ret) ==
    /\ ca' = IF slot = "a" /\ ret.exc = "" THEN ret.val ELSE ca
    /\ cb' = IF slot = "b" /\ ret.exc = "" THEN ret.val ELSE cb
    /\ made' = [made EXCEPT ![slot] = [timezone |-> args.timezone,
                                       timestr |-> args.timestr,
                                       at |-> clock, tried |-> TRUE,
                                       sub |-> FALSE]]
    /\ last' = Call("Chronyk", slot, None, args, ret)
    /\ UNCHANGED <<host, loaded, clock, cd>>

\* a = Chronyk(timestr, timezone, allowpast, allowfuture), or b = ...
ChronykNew(slot, timestr, timezone, allowpast, allowfuture) ==
    /\ ~made[slot].tried
    /\ Bind(slot,
            [timezone |-> timezone, timestr |-> timestr,
             allowpast |-> allowpast, allowfuture |-> allowfuture],
            ChronykInit(host, loaded, clock, timestr, timezone, allowpast,
                        allowfuture))

\* a.timestamp(timezone) or b.timestamp(timezone)
Timestamp(slot, timezone) ==
    /\ Held(slot) # None
    /\ last' = Call("timestamp", slot, Held(slot), [timezone |-> timezone],
                    Ok(timestamp(Held(slot), timezone)))
    /\ UNCHANGED <<host, loaded, clock, ca, cb, cd, made>>

\* a.ctime(timezone) or b.ctime(timezone)
Ctime(slot, timezone) ==
    /\ Held(slot) # None
    /\ last' = Call("ctime", slot, Held(slot), [timezone |-> timezone],
                    Ok(ctime(host, Held(slot), timezone)))
    /\ UNCHANGED <<host, loaded, clock, ca, cb, cd, made>>

\* a + other or b + other: the sum is returned, no name is rebound
Add(slot, other) ==
    /\ Held(slot) # None
    /\ other # None
    /\ last' = Call("add", slot, Held(slot), [other |-> other],
                    ChronykAdd(host, loaded, clock, Held(slot), other))
    /\ UNCHANGED <<host, loaded, clock, ca, cb, cd, made>>

\* the name d is bound to what was returned, where it returned
BindDelta(op, self, args, how, ret) ==
    /\ cd' = IF ret.exc = "" THEN ret.val ELSE cd
    /\ made' = [made EXCEPT !.d = how]
    /\ last' = Call(op, "d", self, args, ret)
    /\ UNCHANGED <<host, loaded, clock, ca, cb>>

\* d = a - b
Sub ==
    /\ ca # None
    /\ cb # None
    /\ ~made.d.tried
    /\ BindDelta("sub", ca, [other |-> cb],
                 [NotMade EXCEPT !.tried = TRUE, !.sub = TRUE, !.at = clock],
                 ChronykSub(host, loaded, clock, ca, cb))

\* callers of the arithmetic on instants made from numbers
Next ==
    \/ \E slot \in {"a", "b"}, t \in Epochs, z \in Offsets :
          ChronykNew(slot, Int_(t), z, TRUE, TRUE)
    \/ \E slot \in {"a", "b"}, timezone \in TzArgs : Timestamp(slot, timezone)
    \/ \E slot \in {"a", "b"}, n \in Seconds :
          \/ Add(slot, Delta_(n))
          \/ Add(slot, Int_(n))
    \/ Add("b", cd)
    \/ Sub

Spec == Init /\ [][Next]_vars

\* d = ChronykDelta(timestr)
DeltaNew(timestr) ==
    /\ ~made.d.tried
    /\ BindDelta("ChronykDelta", None, [timestr |-> timestr],
                 [NotMade EXCEPT !.tried = TRUE, !.timestr = timestr,
                                 !.at = clock],
                 DeltaInit(timestr))

\* d.timestring(maxunits)
Timestring(maxunits) ==
    /\ cd # None
    /\ last' = Call("timestring", "d", cd, [maxunits |-> maxunits],
                    DeltaTimestring(cd, maxunits))
    /\ UNCHANGED <<host, loaded, clock, ca, cb, cd, made>>

\* the texts a caller tries with allowpast or allowfuture switched off
RangeTexts ==
    {"now", "yesterday", "2 hours ago", "in 2 hours", "2014-09-18 11:24:47",
     "17:14", "warglblargl"}

\* callers of the constructor of instants with every kind of input
NextText ==
    \/ Tick
    \/ \E text \in Texts, z \in Offsets :
          ChronykNew("a", Str_(text), z, TRUE, TRUE)
    \/ \E text \in RangeTexts, z \in Offsets, allowpast, allowfuture \in BOOLEAN :
          ChronykNew("a", Str_(text), z, allowpast, allowfuture)
    \/ \E z \in Offsets, allowpast, allowfuture \in BOOLEAN :
          ChronykNew("a", None, z, allowpast, allowfuture)
    \/ \E n \in {-10, 0, 10}, z \in Offsets, allowpast, allowfuture \in BOOLEAN :
          ChronykNew("a", Int_(clock + n), z, allowpast, allowfuture)
    \/ ChronykNew("a", List_, 0, TRUE, TRUE)
    \/ \E timezone \in TzArgs : Ctime("a", timezone)
    \/ \E timezone \in TzArgs : Timestamp("a", timezone)

SpecText == Init /\ [][NextText]_vars

\* the durations and the texts a caller makes a ChronykDelta of
DeltaSeconds ==
    {0, 1, 48, 49, 61, 108, 528, 3599, 3650, 90000, 93784, -93784, 2073601,
     2600000, 28382400, 31536061, 34128000}

DeltaTexts ==
    {"2 hours and 1 minute", "1 day ago", "5 days", "3 weeks, 2 seconds",
     "1 year, 2 months", "warglblargl", "", "minutes", "x hours",
     "2 Hours", "12 hours ago", "in 10 minutes", "days and 5 days",
     "7 days, 2 days", "5  days", "4 weeks and 3 week"}

\* the texts a caller passes to guesstype
GuessTexts ==
    {"2 hours ago", "in 2 hours", "2 hours", "5 days", "1 day ago",
     "3 weeks, 2 seconds", "yesterday", "now", "this month",
     "2014-09-18 11:24:47", "17:14", "2 Hours", "warglblargl",
     "in 2 hours ago", "today", "this week", "this day", "yester day",
     "yesteryear", "yester year"}

\* guesstype(timestr): the object is returned, no name is bound
Guesstype(timestr) ==
    /\ last' = Call("guesstype", "", None, [timestr |-> timestr],
                    guesstype(host, loaded, clock, timestr))
    /\ UNCHANGED <<host, loaded, clock, ca, cb, cd, made>>

\* the maxunits arguments
MaxUnitsArgs == (2 - MaxUnitsTried)..MaxUnitsTried

\* callers of the durations
NextDelta ==
    \/ \E n \in DeltaSeconds : DeltaNew(Int_(n))
    \/ \E text \in DeltaTexts : DeltaNew(Str_(text))
    \/ DeltaNew(List_)
    \/ \E maxunits \in MaxUnitsArgs : Timestring(maxunits)

SpecDelta == Init /\ [][NextDelta]_vars

\* the clock readings for the relative phrases: a day of September, the
\* last hour of a February 29, a January 31 before a leap February and one
\* before a common February, and a December 31
RelativeClocks ==
    {TimeGm([Y |-> 2014, m |-> 9, d |-> 18, H |-> 12, M |-> 0, S |-> 0]),
     TimeGm([Y |-> 2016, m |-> 2, d |-> 29, H |-> 23, M |-> 30, S |-> 0]),
     TimeGm([Y |-> 2016, m |-> 1, d |-> 31, H |-> 10, M |-> 0, S |-> 0]),
     TimeGm([Y |-> 2015, m |-> 1, d |-> 31, H |-> 10, M |-> 0, S |-> 0]),
     TimeGm([Y |-> 2014, m |-> 12, d |-> 31, H |-> 10, M |-> 0, S |-> 0])}

InitRelative ==
    /\ host \in Hosts
    /\ clock \in RelativeClocks
    /\ loaded = clock
    /\ ca = None
    /\ cb = None
    /\ cd = None
    /\ made = [d |-> NotMade, a |-> NotMade, b |-> NotMade]
    /\ last = NoCall

\* the relative phrases a caller writes
PhraseTexts ==
    {"in 1 month", "1 month ago", "in 2 months", "9 months ago",
     "in 12 months", "14 months ago", "in 4 months", "24 months ago",
     "1 year ago", "in 1 year", "in 4 years", "yesteryear",
     "1 year and 1 month ago",
     "2 hours ago", "in 2 hours", "In 30 minutes", "10 seconds ago",
     "in 2 days", "2 days ago", "ago", "12 days ago",
     "3 weeks, 2 days, 5 hours, 7 minutes and 9 seconds ago",
     "in 1 week and 1 day ago", "1 week and 1 day ago",
     "in blurgh weeks and 2 days", "overninethousand months and 2 days ago",
     "something years and 2 days ago", "in 5 days and 3 days"}

\* callers of the constructor with relative phrases
NextRelative ==
    \/ \E text \in PhraseTexts, z \in Offsets :
          ChronykNew("a", Str_(text), z, TRUE, TRUE)
    \/ \E timezone \in TzArgs : Timestamp("a", timezone)

SpecRelative == InitRelative /\ [][NextRelative]_vars

\* a.relativestring(now, minimum, maximum, pattern, timezone, maxunits)
Relativestring(now, minimum, maximum, pattern, timezone, maxunits) ==
    /\ ca # None
    /\ last' = Call("relativestring", "a", ca,
                    [timezone |-> timezone, now |-> now, maxunits |-> maxunits,
                     pattern |-> pattern, minimum |-> minimum,
                     maximum |-> maximum],
                    relativestring(host, clock, ca, now, minimum, maximum,
                                   pattern, timezone, maxunits))
    /\ UNCHANGED <<host, loaded, clock, ca, cb, cd, made>>

\* callers of relativestring, for instants made from numbers around the
\* time of the call
NextShown ==
    \/ Tick
    \/ \E n \in {0, -5, -86400, 86400, 172800, -3456000}, z \in Offsets :
          ChronykNew("a", Int_(clock + n), z, TRUE, TRUE)
    \/ \E now \in {None, Int_(loaded)}, minimum \in {10, 0},
          maximum \in {3600 * 24 * 30, 3600, 0, -1},
          timezone \in {None, Int_(0)} :
          Relativestring(now, minimum, maximum, "%Y-%m-%d", timezone, 1)
    \/ Relativestring(None, 10, 3600, "%Y-%m-%d %H:%M:%S", None, 0)
    \/ \E maximum \in {3600, -1} :
          Relativestring(Int_(loaded), 10, maximum, "%Y-%m-%d %H:%M:%S",
                         Int_(0), 2)

SpecShown == Init /\ [][NextShown]_vars

\* callers of guesstype
NextGuess ==
    \/ Tick
    \/ \E text \in GuessTexts : Guesstype(Str_(text))
    \/ Guesstype(Int_(9001))

SpecGuess == Init /\ [][NextGuess]_vars

-----------------------------------------------------------------------------
(* Properties of the arithmetic on instants, under Spec *)

\* C1: for an instant made from the number t with the offset Z,
\* timestamp(timezone=Z2) returns t + Z - Z2, where leaving the argument out
\* stands for Z2 = Z; with Z2 = Z the result is t itself
C1_TimestampRebased ==
    (last.op = "timestamp" /\ made[last.name].timestr.type = "int") =>
        LET t  == made[last.name].timestr.v
            Z  == made[last.name].timezone
            Z2 == IF last.args.timezone = None THEN Z ELSE last.args.timezone.v
        IN  /\ last.ret = Ok(t + Z - Z2)
            /\ (Z2 = Z => last.ret.val = t)

C1_Witness ==
    /\ last.op = "timestamp"
    /\ made[last.name].timestr = Int_(1000000000)
    /\ made[last.name].timezone = 3600
    /\ last.args.timezone = Int_(-7200)
    /\ last.ret.val = 1000000000 + 3600 + 7200

\* C3: for an instant made from the number x with the offset Z, adding a
\* ChronykDelta of d seconds or the number d returns a new instant that
\* equals Chronyk(x + d, timezone=Z) and whose timezone is Z, and the left
\* operand is what it was
C3_AddShifts ==
    (last.op = "add" /\ made[last.name].timestr.type = "int") =>
        LET x == made[last.name].timestr.v
            Z == made[last.name].timezone
            d == IF last.args.other.type = "ChronykDelta"
                 THEN last.args.other.seconds ELSE last.args.other.v
        IN  /\ last.ret.exc = ""
            /\ last.ret.val.type = "Chronyk"
            /\ ChronykEq(last.ret.val,
                         ChronykInit(host, loaded, last.at, Int_(x + d), Z,
                                     TRUE, TRUE).val)
            /\ last.ret.val.timezone = Z
            /\ Held(last.name) = last.self

C3_Witness ==
    /\ last.op = "add"
    /\ made[last.name].timestr = Int_(1000000000)
    /\ made[last.name].timezone = -7200
    /\ last.args.other = Delta_(86400)
    /\ last.ret.val = Chronyk_(1000000000 + 86400 - 7200, -7200)
    /\ Held(last.name) = Chronyk_(1000000000 - 7200, -7200)

\* C4: a - b is a ChronykDelta whose seconds are a.timestamp(timezone=0)
\* less b.timestamp(timezone=0), whatever the offsets of a and b, and
\* b + (a - b) equals a
C4_SubThenAdd ==
    /\ last.op = "sub" =>
          /\ last.ret.exc = ""
          /\ last.ret.val.type = "ChronykDelta"
          /\ last.ret.val.seconds
                = (made.a.timestr.v + made.a.timezone)
                  - (made.b.timestr.v + made.b.timezone)
          /\ cd = last.ret.val
    /\ (last.op = "add" /\ last.name = "b" /\ made.d.sub
        /\ last.args.other = cd) =>
          /\ last.ret.exc = ""
          /\ ChronykEq(last.ret.val, ca)
          /\ ChronykEq(ca, last.ret.val)

C4_Witness ==
    /\ last.op = "add"
    /\ last.name = "b"
    /\ made.d.sub
    /\ last.args.other = cd
    /\ ca.timezone = 3600
    /\ cb.timezone = -7200
    /\ cd.seconds = 1000000000 + 3600 + 7200
    /\ last.ret.val.ts = ca.ts

-----------------------------------------------------------------------------
(* Properties of the constructor and of ctime, under SpecText *)

\* the normalized common names for the present
NowPhrases == {"now", "today", "this week", "this month", "this day"}

\* C2: an instant made, with the offset Z, from "now" or another common name
\* for the present is the instant Chronyk(None, timezone=Z) of the same
\* clock reading: the same stored timestamp, equal, and the same timestamp()
C2_NowLikeNone ==
    (/\ last.op = "Chronyk"
     /\ last.args.timestr.type = "str"
     /\ Normalize(last.args.timestr.v) \in NowPhrases
     /\ last.ret.exc = "") =>
        LET none == ChronykInit(host, loaded, last.at, None,
                                last.args.timezone, TRUE, TRUE).val
        IN  /\ last.ret.val.ts = none.ts
            /\ ChronykEq(last.ret.val, none)
            /\ timestamp(last.ret.val, None) = timestamp(none, None)

\* whether an alternative of __fromstring__ produced a value
HasValue(r) == r.exc = "" /\ ~r.none

\* the call returned ret where the alternatives, each on the normalized
\* text, are common, relative and absolute: the first with a value is the
\* stored timestamp, and ValueError is raised exactly where none has one
FirstOfThree(ret, common, relative, absolute) ==
    /\ (ret.exc = "ValueError")
          <=> ~(HasValue(common) \/ HasValue(relative) \/ HasValue(absolute))
    /\ ret.exc = "" =>
          ret.val.ts = IF HasValue(common) THEN common.val
                       ELSE IF HasValue(relative) THEN relative.val
                       ELSE absolute.val

\* C5: the constructor resolves the normalized text by the common names,
\* then the relative parser, then the absolute matcher; the first that
\* produces a value determines the result, and ValueError is raised if and
\* only if none of the three produces a value
C5_FirstValueWins ==
    (last.op = "Chronyk" /\ last.args.timestr.type = "str") =>
        FirstOfThree(last.ret,
                     CommonPhrase(host, last.at,
                                  Normalize(last.args.timestr.v)),
                     fromrelative(host, last.at,
                                  Normalize(last.args.timestr.v)),
                     fromabsolute(host, loaded, last.args.timezone,
                                  Normalize(last.args.timestr.v)))

C5_Witness ==
    /\ last.op = "Chronyk"
    /\ last.args.timestr.type = "str"
    /\ last.args.timestr.v = "In 30 minutes"
    /\ last.ret.exc = ""
    /\ last.ret.val.ts = currentutc(host, last.at) + 30 * 60

\* what C6 says of a call with the arguments args that returned ret: free is
\* what the call returns without the range checks, and present is the
\* instant of the current time
RangeAsClaimed(args, ret, free, present) ==
    free.exc = "" =>
        ((ret.exc = "DateRangeError")
            <=> \/ ~args.allowpast /\ ChronykLt(free.val, present)
                \/ ~args.allowfuture /\ ChronykGt(free.val, present))

\* C6: for every kind of input and every offset Z, with allowpast=False the
\* constructor raises DateRangeError whenever the instant lies before the
\* current time and not for one after it, and with allowfuture=False
\* whenever it lies after and not for one before; the current time is the
\* instant Chronyk(None, timezone=Z) of the same clock reading
C6_RangeChecked ==
    (last.op = "Chronyk" /\ ~(last.args.allowpast /\ last.args.allowfuture)) =>
        RangeAsClaimed(last.args, last.ret,
                       ChronykInit(host, loaded, last.at, last.args.timestr,
                                   last.args.timezone, TRUE, TRUE),
                       ChronykInit(host, loaded, last.at, None,
                                   last.args.timezone, TRUE, TRUE).val)

\* time.ctime's text of the calendar date and the wall-clock time w
WrittenCtime(w) ==
    CtimeDays[((DaysFromCivil(w.Y, w.m, w.d) + 3) % 7) + 1] \o " "
    \o CtimeMonths[w.m] \o " "
    \o (IF w.d < 10 THEN " " ELSE "") \o IntStr(w.d) \o " "
    \o (IF w.H < 10 THEN "0" ELSE "") \o IntStr(w.H) \o ":"
    \o (IF w.M < 10 THEN "0" ELSE "") \o IntStr(w.M) \o ":"
    \o (IF w.S < 10 THEN "0" ELSE "") \o IntStr(w.S) \o " " \o IntStr(w.Y)

\* C7: an instant made from a text of a date, or of a date and a time,
\* without a zone is made whatever the offset Z, and its ctime() with the
\* default offset is the calendar date and the wall-clock time written in
\* the text, 00:00:00 where the text has no time
C7_AbsoluteRoundTrip ==
    \A z \in ZoneLessTexts :
        /\ (/\ last.op = "Chronyk"
            /\ last.args.timestr.type = "str"
            /\ last.args.timestr.v = z.text
            /\ last.args.allowpast /\ last.args.allowfuture) =>
              last.ret.exc = ""
        /\ (/\ last.op = "ctime"
            /\ last.args.timezone = None
            /\ made.a.timestr.type = "str"
            /\ made.a.timestr.v = z.text) =>
              last.ret = Ok(WrittenCtime(z.written))

C7_Witness ==
    /\ last.op = "ctime"
    /\ last.args.timezone = None
    /\ made.a.timestr.type = "str"
    /\ made.a.timestr.v = "21. 8. 1976 23:18"
    /\ made.a.timezone = 3600
    /\ host.altzone = -7200
    /\ last.ret.val = "Sat Aug 21 23:18:00 1976"

-----------------------------------------------------------------------------
(* Properties of the durations, under SpecDelta *)

\* the quotient num / den rounded up where its fraction is above 0.8, else
\* down
StrictRound(num, den) ==
    LET floor == num \div den
    IN  IF 10 * (num - floor * den) > 8 * den THEN floor + 1 ELSE floor

RefUnits == <<"year", "month", "day", "hour", "minute", "second">>

RefSeconds == <<365 * 86400, 30 * 86400, 86400, 3600, 60, 1>>

\* the counts of the levels from the i-th on for what remains
RECURSIVE RefCounts(_, _)
RefCounts(remains, i) ==
    IF i > 6 THEN <<>>
    ELSE <<StrictRound(remains, RefSeconds[i])>>
         \o RefCounts(remains - StrictRound(remains, RefSeconds[i])
                                   * RefSeconds[i],
                      i + 1)

\* the levels shown: of the first maxunits levels from the first whose count
\* is not zero, those whose count is positive
RefShown(counts, maxunits) ==
    LET nonzero == {i \in 1..6 : counts[i] # 0}
    IN  {i \in 1..6 : /\ counts[i] > 0
                      /\ \E f \in nonzero :
                            /\ \A j \in nonzero : f <= j
                            /\ f <= i
                            /\ i < f + maxunits}

RefUnit(unit, count) ==
    IF count = 1 THEN "1 " \o unit ELSE IntStr(count) \o " " \o unit \o "s"

\* the levels of shown in order, joined by ", " and a last " and "
RECURSIVE RefJoin(_, _)
RefJoin(counts, shown) ==
    IF shown = {} THEN ""
    ELSE LET i == CHOOSE i1 \in shown : \A i2 \in shown : i1 <= i2
         IN  RefUnit(RefUnits[i], counts[i])
             \o (IF Cardinality(shown) = 1 THEN ""
                 ELSE IF Cardinality(shown) = 2 THEN " and " ELSE ", ")
             \o RefJoin(counts, shown \ {i})

RefRendering(counts, maxunits) == RefJoin(counts, RefShown(counts, maxunits))

\* the positions of text where a number starts, and those among them where
\* it starts with the digit 0
NumberStarts(text) ==
    {i \in 1..Len(text) : /\ IsDigit(Char(text, i))
                          /\ (i = 1 \/ ~IsDigit(Char(text, i - 1)))}

\* C8: for every duration s and every maxunits >= 1, timestring(maxunits) is
\* the reference rendering: of abs(s), the counts of year (365 days), month
\* (30 days), day, hour, minute and second in that order, each the strict
\* rounding (up where the fraction is above 0.8, else down) of what remains
\* after the higher units; the leading zero levels dropped; of the first
\* maxunits levels left, the positive ones joined, singular for 1, with ", "
\* and a last " and "; it shows no zero or negative count and at most
\* maxunits units
C8_TimestringReference ==
    (last.op = "timestring" /\ last.args.maxunits >= 1) =>
        /\ last.ret = Ok(RefRendering(
                            RefCounts(IF last.self.seconds < 0
                                      THEN -last.self.seconds
                                      ELSE last.self.seconds, 1),
                            last.args.maxunits))
        /\ Cardinality(NumberStarts(last.ret.val)) <= last.args.maxunits
        /\ \A i \in NumberStarts(last.ret.val) : Char(last.ret.val, i) # "0"
        /\ ~Contains(last.ret.val, "-")

\* C9: timestring(maxunits) raises ValueError for every maxunits < 1, for
\* every duration, and returns no string then
C9_MaxunitsBelowOne ==
    (last.op = "timestring" /\ last.args.maxunits < 1) =>
        last.ret = Raise("ValueError")

C9_Witness ==
    /\ last.op = "timestring"
    /\ last.args.maxunits = 0
    /\ last.self = Delta_(93784)
    /\ last.ret.exc = "ValueError"

\* whether text holds digits, a space and then the name of one of the seven
\* units
NamesAnAmount(text) ==
    \E i \in 1..Len(text) :
        /\ IsDigit(Char(text, i))
        /\ \E unit \in {"second", "minute", "hour", "day", "week", "month",
                        "year"} :
              StartsWithAt(text, i + 1, " " \o unit)

\* C10: the constructor of ChronykDelta raises ValueError for a string that
\* holds no "<digits> <unit>" phrase for any of the seven units
C10_UnparsedRaises ==
    (/\ last.op = "ChronykDelta"
     /\ last.args.timestr.type = "str"
     /\ ~NamesAnAmount(last.args.timestr.v)) =>
        last.ret.exc = "ValueError"

\* the number whose last digit is at position e of text
NumberEndingAt(text, e) ==
    LET starts == {p \in 1..e : AllDigits(SubSeq(text, p, e))}
    IN  ParseInt(SubSeq(text, CHOOSE p1 \in starts : \A p2 \in starts : p1 <= p2,
                        e))

\* the first integer of text that stands immediately before " " and the
\* stem of a unit, 0 where there is none
FirstAmount(text, stem) ==
    LET ends == {e \in 1..Len(text) : /\ IsDigit(Char(text, e))
                                      /\ StartsWithAt(text, e + 1, " " \o stem)}
    IN  IF ends = {} THEN 0
        ELSE NumberEndingAt(text, CHOOSE e1 \in ends : \A e2 \in ends : e1 <= e2)

\* the seconds a text names as a duration
SecondsNamed(text) ==
    FirstAmount(text, "second") + 60 * FirstAmount(text, "minute")
    + 3600 * FirstAmount(text, "hour") + 86400 * FirstAmount(text, "day")
    + 604800 * FirstAmount(text, "week") + 2592000 * FirstAmount(text, "month")
    + 31536000 * FirstAmount(text, "year")

FramedAsInstant(text) ==
    Contains(" " \o text \o " ", " in ") \/ Contains(" " \o text \o " ", " ago ")

\* whether a text mentions the name of a unit
MentionsUnit(text) ==
    \E unit \in {"second", "minute", "hour", "day", "week", "month", "year"} :
        \E j \in 1..Len(text) : StartsWithAt(text, j, unit)

\* C12: guesstype(text) gives a Chronyk, built as Chronyk(text) builds it,
\* when the space-padded text contains " in " or " ago "; otherwise a
\* ChronykDelta when the text mentions one of the unit names second, minute,
\* hour, day, week, month, year; otherwise a Chronyk
C12_GuessedType ==
    (last.op = "guesstype" /\ last.args.timestr.type = "str") =>
        IF ~FramedAsInstant(last.args.timestr.v)
           /\ MentionsUnit(last.args.timestr.v)
        THEN /\ last.ret.exc = ""
             /\ last.ret.val.type = "ChronykDelta"
        ELSE /\ last.ret.exc = "" => last.ret.val.type = "Chronyk"
             /\ last.ret.exc # "" =>
                   ChronykInit(host, loaded, last.at, last.args.timestr,
                               LOCALTZ(host), TRUE, TRUE).exc = last.ret.exc

C12_Witness ==
    /\ last.op = "guesstype"
    /\ last.args.timestr.type = "str"
    /\ last.args.timestr.v = "2 hours ago"
    /\ last.ret.exc = ""
    /\ last.ret.val.type = "Chronyk"

-----------------------------------------------------------------------------
(* Properties of the relative phrases, under SpecRelative *)

\* whether text holds an integer immediately before " " and the stem
HasAmount(text, stem) ==
    \E e \in 1..Len(text) : /\ IsDigit(Char(text, e))
                             /\ StartsWithAt(text, e + 1, " " \o stem)

\* the seconds of the weeks, days, hours, minutes and seconds a text names
ClockAmount(text) ==
    604800 * FirstAmount(text, "week") + 86400 * FirstAmount(text, "day")
    + 3600 * FirstAmount(text, "hour") + 60 * FirstAmount(text, "minute")
    + FirstAmount(text, "second")

\* whether a text is framed as relative and names months and nothing else
MonthsOnly(text) ==
    /\ FramedAsInstant(text)
    /\ HasAmount(text, "month")
    /\ ~HasAmount(text, "year")
    /\ ClockAmount(text) = 0

\* whether the last call constructed an instant from the string text
Constructing ==
    last.op = "Chronyk" /\ last.args.timestr.type = "str"

\* the calendar date and time the relative parser reached, where it
\* returned stamp
Reached(stamp) == GmTime(stamp - HostOffset(host))

Smaller(x, y) == IF x < y THEN x ELSE y

\* the day is the reference day or the last day of the month reached, and
\* January 31 plus one month is the last day of February
ClampedFrom(ref, text, r) ==
    /\ r.d = Smaller(ref.d, MonthRange(r.Y, r.m))
    /\ (ref.m = 1 /\ ref.d = 31 /\ text = "in 1 month") =>
          /\ r.Y = ref.Y
          /\ r.m = 2
          /\ r.d = IF IsLeap(ref.Y) THEN 29 ELSE 28

\* C13: for every reference date and every count of months, after the month
\* shift of the relative parser the day of the month is the smaller of the
\* reference day and the number of days of the month reached, leap years
\* included: January 31 plus 1 month is February 29 in a leap year and
\* February 28 otherwise; the shift never fails because of the day
C13_MonthDayClamped ==
    (Constructing /\ MonthsOnly(Normalize(last.args.timestr.v))) =>
        /\ last.ret.exc = ""
        /\ ClampedFrom(GmTime(last.at), last.args.timestr.v,
                       Reached(last.ret.val.ts))

C13_Witness ==
    /\ Constructing
    /\ last.args.timestr.v = "in 1 month"
    /\ last.at = TimeGm([Y |-> 2016, m |-> 1, d |-> 31, H |-> 10, M |-> 0,
                         S |-> 0])
    /\ last.ret.exc = ""
    /\ Reached(last.ret.val.ts).m = 2
    /\ Reached(last.ret.val.ts).d = 29

\* texts that mention a unit without an integer before it, each with the
\* text left when the phrase of that unit is removed
WithoutPhrase ==
    {<<"in blurgh weeks and 2 days", "in 2 days">>,
     <<"overninethousand months and 2 days ago", "2 days ago">>,
     <<"something years and 2 days ago", "2 days ago">>}

\* C14: in the relative parser a unit that is mentioned without an integer
\* immediately before it ("blurgh weeks", "overninethousand months",
\* "something years") counts zero and does not abort the parse: no error is
\* raised and the result is the result for the text without that phrase
C14_UnreadUnitIsZero ==
    \A pair \in WithoutPhrase :
        (Constructing /\ last.args.timestr.v = pair[1]) =>
            /\ last.ret.exc = ""
            /\ last.ret = ChronykInit(host, loaded, last.at, Str_(pair[2]),
                                      last.args.timezone, TRUE, TRUE)

C14_Witness ==
    /\ Constructing
    /\ last.args.timestr.v = "something years and 2 days ago"
    /\ last.ret.exc = ""
    /\ last.ret.val.ts = Mktime(host, UtcNow(last.at)) - 2 * 86400

\* +1 for a text with " in ", -1 otherwise
Direction(text) == IF Contains(" " \o text \o " ", " in ") THEN 1 ELSE -1

\* the year and the month r reached are those of the month index shifted
\* from the reference ref, carried by floor division
CarriedFrom(ref, shifted, r) ==
    /\ r.m = (shifted % 12) + 1
    /\ r.Y = ref.Y + (shifted \div 12)

\* C15: the month shift of the relative parser carries by floor division in
\* both directions: for the reference (year, month), a count N >= 0 and coef
\* in {+1, -1}, the new month index is (month - 1 + N * coef) mod 12 and the
\* new year is year + floor((month - 1 + N * coef) / 12); so "N months ago"
\* never gives a date later than the reference date
C15_MonthCarryFloors ==
    (/\ Constructing
     /\ MonthsOnly(Normalize(last.args.timestr.v))
     /\ last.ret.exc = "") =>
        /\ CarriedFrom(GmTime(last.at),
                       (GmTime(last.at).m - 1)
                       + FirstAmount(Normalize(last.args.timestr.v), "month")
                         * Direction(Normalize(last.args.timestr.v)),
                       Reached(last.ret.val.ts))
        /\ Direction(Normalize(last.args.timestr.v)) = -1 =>
              last.ret.val.ts <= Mktime(host, UtcNow(last.at))

\* whether a text names years and nothing else, or is yesteryear
YearsOnly(text) ==
    \/ text = "yesteryear"
    \/ /\ FramedAsInstant(text)
       /\ HasAmount(text, "year")
       /\ ~HasAmount(text, "month")
       /\ ClockAmount(text) = 0

\* the year such a text points to from the year y
TargetYear(text, y) ==
    IF text = "yesteryear" THEN y - 1
    ELSE y + FirstAmount(text, "year") * Direction(text)

\* February 28 of the year y
IsFeb28(r, y) == r.Y = y /\ r.m = 2 /\ r.d = 28

\* C16: a year shift is calendar-aware: where the reference date is
\* February 29 and the year pointed to by "N years ago", "in N years" or
\* "yesteryear" is not a leap year, the day is clamped to February 28 and
\* the construction succeeds instead of raising an error
C16_YearShiftClamped ==
    (/\ Constructing
     /\ YearsOnly(Normalize(last.args.timestr.v))
     /\ GmTime(last.at).m = 2
     /\ GmTime(last.at).d = 29
     /\ ~IsLeap(TargetYear(Normalize(last.args.timestr.v), GmTime(last.at).Y))) =>
        /\ last.ret.exc = ""
        /\ IsFeb28(Reached(last.ret.val.ts),
                   TargetYear(Normalize(last.args.timestr.v), GmTime(last.at).Y))

\* C17: for a relative text that mentions no year and no month, the parsed
\* instant is the reference instant (what the parser gives for the time of
\* the call) shifted by coef * (604800 w + 86400 d + 3600 h + 60 m + s),
\* each magnitude the first integer immediately before the stem of its unit
\* (0 where there is none), coef +1 if the space-padded text contains " in "
\* (even when it also contains " ago ") and -1 otherwise
C17_ShiftedByClockAmount ==
    (/\ Constructing
     /\ FramedAsInstant(Normalize(last.args.timestr.v))
     /\ ~Contains(Normalize(last.args.timestr.v), "year")
     /\ ~Contains(Normalize(last.args.timestr.v), "month")) =>
        /\ last.ret.exc = ""
        /\ last.ret.val.ts =
              Mktime(host, UtcNow(last.at))
              + Direction(Normalize(last.args.timestr.v))
                * ClockAmount(Normalize(last.args.timestr.v))

C17_Witness ==
    /\ Constructing
    /\ last.args.timestr.v = "in 1 week and 1 day ago"
    /\ last.ret.exc = ""
    /\ last.ret.val.ts = Mktime(host, UtcNow(last.at)) + 691200

-----------------------------------------------------------------------------
(* Properties of the absolute matcher, under SpecText *)

\* pairs of texts that differ only in their zone suffix, with the seconds
\* by which the instant of the first is later than that of the second
ZoneSuffixPairs ==
    {<<"2014-09-18 11:24 +0200", "2014-09-18 11:24 +0000", -7200>>}

\* whether the last call constructed an instant from a string with no
\* limit on the past or the future
ConstructingFreely ==
    Constructing /\ last.args.allowpast /\ last.args.allowfuture

\* C18: where the format that matches carries no zone marker, the result is
\* the local timestamp parsed plus the offset the caller assumes; where it
\* carries one, the assumed offset is not added and the zone offset parsed
\* from the text is used, so two texts that differ only in their zone suffix
\* give instants that differ by the difference of the two offsets
C18_ZoneHandling ==
    ConstructingFreely =>
        /\ \A z \in ZoneLessTexts :
              last.args.timestr.v = z.text =>
                  /\ last.ret.exc = ""
                  /\ last.ret.val.ts = TimeGm(z.written) + HostOffset(host)
                                       + last.args.timezone
        /\ \A pair \in ZoneSuffixPairs :
              last.args.timestr.v = pair[1] =>
                  /\ last.ret.exc = ""
                  /\ last.ret.val.ts =
                        ChronykInit(host, loaded, last.at, Str_(pair[1]), 0,
                                    TRUE, TRUE).val.ts
                  /\ last.ret.val.ts
                     - ChronykInit(host, loaded, last.at, Str_(pair[2]),
                                   last.args.timezone, TRUE, TRUE).val.ts
                     = pair[3]

\* the texts of a time alone, each with the hour, minute and second written
TimeOnlyWritten ==
    {<<"17:14", 17, 14, 0>>, <<"11:14 am", 11, 14, 0>>, <<"17:14:32", 17, 14, 32>>}

\* whether the date of r is that of today and its time is the one of w
TodayAt(r, today, w) ==
    /\ r.Y = today.Y /\ r.m = today.m /\ r.d = today.d
    /\ r.H = w[2] /\ r.M = w[3] /\ r.S = w[4]

\* C19: a text of a time alone ("17:14", "11:14 am") is combined with the
\* date of today: for every call, however long after the module was loaded,
\* the calendar date of the parsed instant is the current date of the host
\* at the moment of the call and its time of day is the one written
C19_TimeOnlyToday ==
    ConstructingFreely =>
        \A w \in TimeOnlyWritten :
            last.args.timestr.v = w[1] =>
                /\ last.ret.exc = ""
                /\ TodayAt(Reached(last.ret.val.ts - last.args.timezone),
                           LocalTime(host, last.at), w)

-----------------------------------------------------------------------------
(* Properties of relativestring, under SpecShown *)

\* abs(now - (timestamp - timezone)) of a call of relativestring made at
\* the clock reading at
DiffOf(self, args, at) ==
    LET diff == (IF args.now = None THEN at ELSE args.now.v)
                - (self.ts - (IF args.timezone = None THEN self.timezone
                              ELSE args.timezone.v))
    IN  IF diff < 0 THEN -diff ELSE diff

\* the fallback is taken where the difference is not below the minimum,
\* above the maximum and the maximum is not negative; never where the
\* maximum is negative
FallbackAsClaimed(diff, args, ret, absolute) ==
    /\ (diff >= args.minimum /\ diff > args.maximum /\ args.maximum >= 0) =>
          ret = Ok(absolute)
    /\ args.maximum < 0 => ret # Ok(absolute)

\* C20: relativestring falls back to the absolute format with the fallback
\* pattern whenever abs(diff) is not below the minimum, abs(diff) > maximum
\* and maximum >= 0 (so maximum = 0 sends every difference that is not zero
\* to the fallback); the fallback is off only for maximum < 0
C20_FallbackAboveMaximum ==
    last.op = "relativestring" =>
        FallbackAsClaimed(DiffOf(last.self, last.args, last.at), last.args,
                          last.ret,
                          ChronykTimestring(host, last.self, last.args.pattern,
                                            None))

\* now - (timestamp - timezone) of a call of relativestring made at the
\* clock reading at
SignedDiffOf(self, args, at) ==
    (IF args.now = None THEN at ELSE args.now.v)
    - (self.ts - (IF args.timezone = None THEN self.timezone
                  ELSE args.timezone.v))

\* the phrase for the rendering of abs(diff)
PhraseAsClaimed(diff, rendering) ==
    IF rendering = "1 day" THEN (IF diff < 0 THEN "tomorrow" ELSE "yesterday")
    ELSE IF diff < 0 THEN "in " \o rendering
    ELSE rendering \o " ago"

\* whether a call of relativestring with maxunits >= 1 returned neither
\* "just now" nor the absolute format
ShownRelative ==
    /\ last.op = "relativestring"
    /\ last.args.maxunits >= 1
    /\ DiffOf(last.self, last.args, last.at) >= last.args.minimum
    /\ ~(/\ DiffOf(last.self, last.args, last.at) > last.args.maximum
         /\ last.args.maximum > 0)

\* C21: where relativestring neither returns "just now" nor falls back, it
\* renders abs(diff) as a duration with maxunits and returns "tomorrow"
\* (instant in the future) or "yesterday" (instant in the past) exactly
\* when the rendering is "1 day"; otherwise "in <rendering>" when diff < 0
\* and "<rendering> ago" when diff >= 0
C21_RelativePhrase ==
    ShownRelative =>
        last.ret =
            Ok(PhraseAsClaimed(
                   SignedDiffOf(last.self, last.args, last.at),
                   DeltaTimestring(
                       Delta_(DiffOf(last.self, last.args, last.at)),
                       last.args.maxunits).val))

C21_Witness ==
    /\ ShownRelative
    /\ SignedDiffOf(last.self, last.args, last.at) = -86400
    /\ last.ret = Ok("tomorrow")

\* whether a call of relativestring fell back to the absolute format
FellBack ==
    /\ last.op = "relativestring"
    /\ DiffOf(last.self, last.args, last.at) >= last.args.minimum
    /\ DiffOf(last.self, last.args, last.at) > last.args.maximum
    /\ last.args.maximum > 0

\* C22: the offset passed to relativestring applies to the whole call:
\* where the call falls back to the absolute format, the string returned is
\* timestring(pattern, timezone=<the offset passed>), the fallback being
\* rendered in the offset the difference was computed with, not in the
\* offset stored in the instance
C22_FallbackInOverride ==
    FellBack =>
        last.ret = Ok(ChronykTimestring(host, last.self, last.args.pattern,
                                        last.args.timezone))

\* whether x names at least one unit, each with a positive count
NamesPositive(x) ==
    /\ NumberStarts(x) # {}
    /\ \A i \in NumberStarts(x) : Char(x, i) # "0"

\* the strings relativestring may return, absolute being the fallback
WellFormedPhrase(val, absolute) ==
    \/ val \in {"just now", "tomorrow", "yesterday"}
    \/ val = absolute
    \/ /\ StartsWithAt(val, 1, "in ")
       /\ NamesPositive(SubSeq(val, 4, Len(val)))
    \/ /\ Len(val) >= 4
       /\ StartsWithAt(val, Len(val) - 3, " ago")
       /\ NamesPositive(SubSeq(val, 1, Len(val) - 4))

\* C23: relativestring never returns a phrase with an empty duration: for
\* every instant, now, minimum (minimum <= 0 included), maximum and
\* maxunits >= 1 the result is "just now", "tomorrow", "yesterday", a
\* fallback date string, or "in X" / "X ago" where X names at least one unit
\* with a positive count; it is never " ago" or "in "
C23_NoEmptyDuration ==
    (last.op = "relativestring" /\ last.args.maxunits >= 1) =>
        /\ last.ret.exc = ""
        /\ WellFormedPhrase(last.ret.val,
                            ChronykTimestring(host, last.self,
                                              last.args.pattern, None))
        /\ last.ret.val \notin {" ago", "in "}

-----------------------------------------------------------------------------
(* Properties of guesstype on the common phrases, under SpecGuess *)

\* the strings Chronyk accepts as common phrases
CommonPhrases ==
    {"today", "now", "this week", "this month", "this day", "yesterday",
     "yester day", "yesteryear", "yester year"}

\* C24: guesstype agrees with the constructor of Chronyk on the common
\* phrases: for each of "today", "now", "this week", "this month",
\* "this day", "yesterday", "yester day", "yesteryear", "yester year" it
\* gives what Chronyk(text) gives, a Chronyk of the same point in time,
\* never a ChronykDelta
C24_GuessCommonPhrase ==
    (/\ last.op = "guesstype"
     /\ last.args.timestr.type = "str"
     /\ last.args.timestr.v \in CommonPhrases) =>
        /\ last.ret.exc = "" => last.ret.val.type = "Chronyk"
        /\ last.ret.exc = ChronykInit(host, loaded, last.at,
                                      last.args.timestr, LOCALTZ(host), TRUE,
                                      TRUE).exc
        /\ last.ret.exc = "" =>
              last.ret.val.ts = ChronykInit(host, loaded, last.at,
                                            last.args.timestr, LOCALTZ(host),
                                            TRUE, TRUE).val.ts

====
